---- MODULE Spec2Model ----
(***************************************************************************)
(* State-machine model of the MIDI foot-switch firmware (code.py):         *)
(* FootSwitch, ModeChangeSwitch and ExpressionPedal monitor loops running  *)
(* as cooperative asyncio tasks.  One action is one loop iteration of one  *)
(* task, i.e. the code between two `await asyncio.sleep(...)` points.       *)
(*                                                                         *)
(* The two library calls the loops depend on are modelled by what the      *)
(* libraries compute: adafruit_debouncer.Button.update (time based         *)
(* debounce, short-press counting) and simpleio.map_range (linear map      *)
(* constrained to the output range).  Time is kept as capped ages in       *)
(* milliseconds since the events the Button compares against.              *)
(***************************************************************************)
EXTENDS Integers, Sequences, FiniteSets, TLC

\* ---------------------------------------------------------------- bounds
\* cap on Button.short_counter: a press edge that would exceed it is not sampled
MaxTaps == 2

\* ------------------------------------------------------------- constants
\* 7-bit MIDI value for "on" (int(self.pressed) * 127, ControlChange(.., 127))
MidiOn == 127
\* ControlChange(.., 0)
MidiOff == 0
\* Debouncer(interval=0.010): interval in ticks_ms units
DebounceInterval == 10
\* Button(short_duration_ms=200)
ShortDuration == 200
\* Button(long_duration_ms=500)
LongDuration == 500
\* ExpressionPedal.__init__: self.last_value = 0
InitialLastValue == 0

\* --------------------------------------------------------- configuration
\* config['switches']: the foot switches, all handed to the ModeChangeSwitch
FootSwitches == {"sw1", "sw2"}
\* cc_parameter of each foot switch
SwitchCc(f) == IF f = "sw1" THEN 81 ELSE 83
\* the two task names that are not foot switches
ModeSwitchDev == "mode_change_switch"
PedalDev == "expression_pedal"
Devices == FootSwitches \cup {PedalDev}
\* the foot switches the player operates; the pin of any other foot switch
\* stays open (pulled up) for the whole run
Played == {"sw1"}
\* milliseconds that may pass between two loop iterations
TimeSteps == {100, 300}
\* ExpressionPedal keyword arguments (config['expression_pedals']) of the
\* pedal that runs next to the switches: a pedal calibrated to 400..65000
PedalConfigs ==
    { [cc_parameter |-> 11, sensitivity |-> 2, pot_min |-> 400, pot_max |-> 65000] }
\* AnalogIn.value samples (16 bit) of that pedal: below pot_min, inside, above pot_max
RawSamples == {0, 33000, 65535}
\* pedal configurations and samples of the pedal-only specification
\* (default range, a narrow range, a reversed range, an empty range)
PotRanges == { <<400, 65535>>, <<26044, 27070>>, <<27070, 26044>>, <<26557, 26557>> }
Sensitivities == {0, 1, 2, 3}
WidePedalConfigs ==
    { [cc_parameter |-> 11, sensitivity |-> s, pot_min |-> r[1], pot_max |-> r[2]] :
        s \in Sensitivities, r \in PotRanges }
WideRawSamples == {0, 400, 913, 26044, 26557, 27070, 65023, 65535}

NoMsg == [cc |-> -1, value |-> -1]
ControlChange(cc, v) == [cc |-> cc, value |-> v]

VARIABLES
    switch,       \* switch[f]: state of FootSwitch f's Button (self.switch)
    pressed,      \* pressed[f]: FootSwitch.pressed
    momentary,    \* momentary[f]: FootSwitch.momentary
    mode_change,  \* mode_change[f]: FootSwitch.mode_change
    is_on,        \* ModeChangeSwitch.is_on
    pedal,        \* ExpressionPedal configuration
    last_value,   \* ExpressionPedal.last_value
    sent,         \* messages passed to midi_out.send by the latest loop iteration
    lastMsg,      \* lastMsg[d]: latest message device d passed to midi_out.send
    last,         \* which loop iteration ran last, and the branch it took
    running,      \* the task that holds the event loop without having yielded
    hist          \* history of the run, written by the history specification only

vars == <<switch, pressed, momentary, mode_change, is_on, pedal, last_value,
          sent, lastMsg, last, running, hist>>

Min(a, b) == IF a < b THEN a ELSE b
Abs(a) == IF a < 0 THEN -a ELSE a

\* ------------------------------------------------ adafruit_debouncer.Button
\* Button(pin_in) on a pull-up pin reading lvl at construction
\* (_last_bounce_ticks = 0 lies at least one debounce interval in the past)
ButtonInit(lvl) ==
    [ unstable        |-> lvl,
      value           |-> lvl,
      changed         |-> FALSE,
      bounce_age      |-> DebounceInterval,
      change_age      |-> 0,
      short_counter   |-> 0,
      short_to_show   |-> 0,
      long_registered |-> FALSE ]

\* Debouncer.update(): one raw sample cur (TRUE = electrically high)
DebouncerUpdate(b, cur) ==
    IF cur # b.unstable
    THEN [b EXCEPT !.changed = FALSE, !.unstable = cur, !.bounce_age = 0]
    ELSE IF b.bounce_age >= DebounceInterval /\ cur # b.value
         THEN [b EXCEPT !.changed = TRUE, !.value = cur, !.bounce_age = 0]
         ELSE [b EXCEPT !.changed = FALSE]

\* mutant: the level of the switch instead of its edge
ButtonPressedLevel(b) == ~b.value

\* Button.pressed / Button.released with value_when_pressed = False
ButtonPressed(b) == b.changed /\ ~b.value
ButtonReleased(b) == b.changed /\ b.value
\* Button.short_count
ShortCount(b) == b.short_to_show

\* Button.update()
ButtonUpdate(b, cur) ==
    LET d == DebouncerUpdate(b, cur) IN
    IF ButtonPressed(d)
    THEN [d EXCEPT !.change_age = 0, !.short_counter = @ + 1]
    ELSE IF ButtonReleased(d)
    THEN [d EXCEPT !.change_age = 0, !.long_registered = FALSE]
    ELSE IF ~d.long_registered /\ ~d.value /\ d.change_age > LongDuration
    THEN [d EXCEPT !.long_registered = TRUE, !.short_counter = @ - 1]
    ELSE IF d.short_counter > 0 /\ d.value /\ d.change_age > ShortDuration
    THEN [d EXCEPT !.short_to_show = d.short_counter, !.short_counter = 0]
    ELSE [d EXCEPT !.short_to_show = 0]

\* ticks_ms() moving on by dt: the ages the Button compares, capped
ButtonAge(b, dt) ==
    [b EXCEPT !.bounce_age = Min(@ + dt, DebounceInterval),
              !.change_age = Min(@ + dt, LongDuration + 1)]

\* ------------------------------------------------------ simpleio.map_range
\* round(n / d) for n >= 0, d > 0, ties to the even neighbour (Python round)
RoundHalfEven(n, d) ==
    LET q == n \div d
        r == n % d
    IN IF 2 * r < d THEN q
       ELSE IF 2 * r > d THEN q + 1
       ELSE IF q % 2 = 0 THEN q ELSE q + 1

\* mutant: a linear map that is not constrained to 0..127
MapRangeUnclamped(x, in_min, in_max) ==
    LET in_range == in_max - in_min
        in_delta == x - in_min
    IN IF in_range > 0 THEN RoundHalfEven(in_delta * 127, in_range)
       ELSE IF in_range < 0 THEN RoundHalfEven((-in_delta) * 127, -in_range)
       ELSE IF in_delta # 0 THEN in_delta * 127
       ELSE 64

\* round(simpleio.map_range(x, in_min, in_max, 0, 127))
MapRange(x, in_min, in_max) ==
    LET in_range == in_max - in_min
        in_delta == x - in_min
        \* mapped * 127 as the fraction num / den with den > 0
        num == IF in_range > 0 THEN in_delta * 127
               ELSE IF in_range < 0 THEN (-in_delta) * 127
               ELSE IF in_delta # 0 THEN in_delta * 127
               ELSE 127
        den == IF in_range > 0 THEN in_range
               ELSE IF in_range < 0 THEN -in_range
               ELSE IF in_delta # 0 THEN 1
               ELSE 2
    IN IF num <= 0 THEN 0
       ELSE IF num >= 127 * den THEN 127
       ELSE RoundHalfEven(num, den)

\* ------------------------------------------------------------------- Init
\* the state after main() has constructed the devices from configs
InitWith(configs) ==
    /\ \E lvl \in [FootSwitches -> BOOLEAN] :
          /\ \A f \in FootSwitches \ Played : lvl[f]
          /\ switch = [f \in FootSwitches |-> ButtonInit(lvl[f])]
    /\ pressed = [f \in FootSwitches |-> FALSE]
    /\ momentary \in [FootSwitches -> BOOLEAN]
    /\ mode_change = [f \in FootSwitches |-> FALSE]
    /\ is_on = FALSE
    /\ pedal \in configs
    /\ last_value = InitialLastValue
    /\ sent = << >>
    /\ lastMsg = [d \in Devices |-> NoMsg]
    /\ last = [dev |-> "none", branch |-> "none", value |-> 0]
    /\ running = "none"

\* the history before the first loop iteration, for a flip switch resting at flip
HistInit(flip) ==
    [ flip         |-> flip,
      low_seen     |-> ~flip,
      select_edge  |-> [f \in FootSwitches |-> FALSE],
      select_shown |-> [f \in FootSwitches |-> FALSE],
      emit_mode    |-> [f \in FootSwitches |-> "none"],
      owed         |-> [f \in FootSwitches |-> FALSE] ]

Init == InitWith(PedalConfigs) /\ hist = HistInit(TRUE)

\* ------------------------------------------------------------- scheduling
\* mutant: the `continue` after mode_change_poll skips the sleep
YieldsExceptContinue(branch) == branch # "mode_change"

\* every path through a monitor loop body, the `continue` after
\* mode_change_poll included, leads back to the await asyncio.sleep(...) at the
\* top of the loop, where the task yields to the event loop
Yields(branch) == TRUE

\* task d may run one loop iteration: no other task holds the event loop
MayRun(d) == running \in {"none", d}

\* the task holding the event loop after d ran the path named branch
Holder(d, branch) == IF Yields(branch) THEN "none" ELSE d

\* ------------------------------------------------------------- FootSwitch
\* the raw levels the pin of foot switch f can read (TRUE = open, pulled up)
PinLevels(f) == IF f \in Played THEN BOOLEAN ELSE {TRUE}

\* mutant: a single tap selects momentary as well
NewMomentaryAnyTap(count, old) ==
    IF count = 0 THEN old ELSE TRUE

\* mode_change_poll: the mode chosen from Button.short_count
NewMomentary(count, old) ==
    IF count = 0 THEN old
    ELSE IF count = 1 THEN FALSE
    ELSE TRUE

\* mutant: mode_change_poll reads short_count without calling update()
mode_change_poll_no_update(f, cur) ==
    /\ switch' = switch
    /\ momentary' = [momentary EXCEPT ![f] = NewMomentary(ShortCount(switch[f]), @)]
    /\ sent' = << >>
    /\ last' = [dev |-> f, branch |-> "mode_change", value |-> 0]
    /\ UNCHANGED <<pressed, lastMsg>>

\* FootSwitch.mode_change_poll
mode_change_poll(f, cur) ==
    LET b == ButtonUpdate(switch[f], cur) IN
    /\ b.short_counter <= MaxTaps
    /\ switch' = [switch EXCEPT ![f] = b]
    /\ momentary' = [momentary EXCEPT ![f] = NewMomentary(ShortCount(b), @)]
    /\ sent' = << >>
    /\ last' = [dev |-> f, branch |-> "mode_change", value |-> 0]
    /\ UNCHANGED <<pressed, lastMsg>>

\* mutant: the toggle message always carries 127
ToggleValueStuck(p) == MidiOn

\* mutant: the toggle message carries the inverted state
ToggleValueInverted(p) == IF p THEN MidiOff ELSE MidiOn

\* toggle_poll: int(self.pressed) * 127
ToggleValue(p) == IF p THEN MidiOn ELSE MidiOff

\* toggle_poll: the messages sent, given the Button after update() and the
\* new value of self.pressed
ToggleMsgs(f, b, p) ==
    IF ButtonPressed(b) THEN << ControlChange(SwitchCc(f), ToggleValue(p)) >>
    ELSE << >>

\* FootSwitch.toggle_poll
toggle_poll(f, cur) ==
    LET b == ButtonUpdate(switch[f], cur)
        p == IF ButtonPressed(b) THEN ~pressed[f] ELSE pressed[f]
        msgs == ToggleMsgs(f, b, p)
    IN
    /\ b.short_counter <= MaxTaps
    /\ switch' = [switch EXCEPT ![f] = b]
    /\ pressed' = [pressed EXCEPT ![f] = p]
    /\ sent' = msgs
    /\ lastMsg' = IF msgs = << >> THEN lastMsg
                  ELSE [lastMsg EXCEPT ![f] = msgs[Len(msgs)]]
    /\ last' = [dev |-> f, branch |-> "toggle", value |-> 0]
    /\ UNCHANGED momentary

\* mutant: the release edge sends nothing
MomentaryMsgsNoRelease(f, b) ==
    IF ButtonPressed(b) THEN << ControlChange(SwitchCc(f), MidiOn) >> ELSE << >>

\* mutant: the release edge sends 127 as well
MomentaryMsgsReleaseOn(f, b) ==
    IF ButtonPressed(b) \/ ButtonReleased(b)
    THEN << ControlChange(SwitchCc(f), MidiOn) >> ELSE << >>

\* momentary_poll: the messages sent, given the Button after update()
MomentaryMsgs(f, b) ==
    (IF ButtonPressed(b) THEN << ControlChange(SwitchCc(f), MidiOn) >> ELSE << >>)
    \o (IF ButtonReleased(b) THEN << ControlChange(SwitchCc(f), MidiOff) >> ELSE << >>)

\* FootSwitch.momentary_poll
momentary_poll(f, cur) ==
    LET b == ButtonUpdate(switch[f], cur)
        msgs == MomentaryMsgs(f, b)
    IN
    /\ b.short_counter <= MaxTaps
    /\ switch' = [switch EXCEPT ![f] = b]
    /\ sent' = msgs
    /\ lastMsg' = IF msgs = << >> THEN lastMsg
                  ELSE [lastMsg EXCEPT ![f] = msgs[Len(msgs)]]
    /\ last' = [dev |-> f, branch |-> "momentary", value |-> 0]
    /\ UNCHANGED <<pressed, momentary>>

\* mutant: the loop body runs mode_change_poll whatever the flag says
BranchAlwaysModeChange(modeChange, isMomentary) == "mode_change"

\* mutant: the loop body never looks at the mode_change flag
BranchIgnoresFlag(modeChange, isMomentary) ==
    IF ~isMomentary THEN "toggle" ELSE "momentary"

\* FootSwitch.monitor: the poll the loop body dispatches to
Branch(modeChange, isMomentary) ==
    IF modeChange THEN "mode_change"
    ELSE IF ~isMomentary THEN "toggle"
    ELSE "momentary"

\* one iteration of FootSwitch.monitor: cur is the raw pin level sampled
FootSwitchPoll(f) ==
    /\ \E cur \in PinLevels(f) :
          LET br == Branch(mode_change[f], momentary[f]) IN
          \/ br = "mode_change" /\ mode_change_poll(f, cur)
          \/ br = "toggle" /\ toggle_poll(f, cur)
          \/ br = "momentary" /\ momentary_poll(f, cur)
    /\ MayRun(f)
    /\ running' = Holder(f, Branch(mode_change[f], momentary[f]))
    /\ UNCHANGED <<mode_change, is_on, pedal, last_value>>

\* ------------------------------------------------------- ModeChangeSwitch
\* mutant: only the first foot switch of the list gets the flag
BroadcastFirstOnly(v) == [f \in FootSwitches |-> IF f = "sw1" THEN v ELSE mode_change[f]]

\* for foot_switch in self.foot_switches: foot_switch.mode_change = self.is_on
Broadcast(v) == [f \in FootSwitches |-> v]

\* one iteration of ModeChangeSwitch.monitor; self.pin.value is read for the
\* comparison (v1) and again for the assignment (v2)
ModeChangeSwitchPoll ==
    /\ \E v1 \in BOOLEAN, v2 \in BOOLEAN :
          IF v1 # is_on
          THEN /\ is_on' = v2
               /\ mode_change' = Broadcast(v2)
               /\ last' = [dev |-> ModeSwitchDev, branch |-> "flipped", value |-> 0]
          ELSE /\ UNCHANGED <<is_on, mode_change>>
               /\ last' = [dev |-> ModeSwitchDev, branch |-> "idle", value |-> 0]
    /\ sent' = << >>
    /\ MayRun(ModeSwitchDev)
    /\ running' = Holder(ModeSwitchDev, "monitor")
    /\ UNCHANGED <<switch, pressed, momentary, pedal, last_value, lastMsg>>

\* -------------------------------------------------------- ExpressionPedal
\* mutant: a value at an end of the range is always sent
PedalShouldSendExtremes(current_value, lastv, sensitivity) ==
    \/ Abs(current_value - lastv) >= sensitivity
    \/ current_value \in {0, 127}

\* mutant: the change must exceed the sensitivity
PedalShouldSendStrict(current_value, lastv, sensitivity) ==
    \/ Abs(current_value - lastv) > sensitivity
    \/ (current_value # lastv /\ current_value \in {0, 127})

\* the condition of the if statement in ExpressionPedal.monitor
PedalShouldSend(current_value, lastv, sensitivity) ==
    \/ Abs(current_value - lastv) >= sensitivity
    \/ (current_value # lastv /\ current_value \in {0, 127})

\* mutant: last_value follows every sample
PedalLastValueSampled(current_value, lastv, send) == current_value

\* self.last_value after the if statement
PedalLastValue(current_value, lastv, send) ==
    IF send THEN current_value ELSE lastv

\* one iteration of ExpressionPedal.monitor on a raw sample from samples
PedalPoll(samples) ==
    /\ \E raw \in samples :
          LET current_value == MapRange(raw, pedal.pot_min, pedal.pot_max)
              send == PedalShouldSend(current_value, last_value, pedal.sensitivity)
              modWheel == ControlChange(pedal.cc_parameter, current_value)
          IN
          /\ last_value' = PedalLastValue(current_value, last_value, send)
          /\ sent' = IF send THEN << modWheel >> ELSE << >>
          /\ lastMsg' = IF send THEN [lastMsg EXCEPT ![PedalDev] = modWheel]
                        ELSE lastMsg
          /\ last' = [dev |-> PedalDev,
                      branch |-> IF send THEN "send" ELSE "quiet",
                      value |-> current_value]
    /\ MayRun(PedalDev)
    /\ running' = Holder(PedalDev, "monitor")
    /\ UNCHANGED <<switch, pressed, momentary, mode_change, is_on, pedal>>

ExpressionPedalPoll == PedalPoll(RawSamples)

\* ------------------------------------------------------------------ time
\* dt milliseconds pass while every task sleeps
Advance ==
    /\ \E dt \in TimeSteps :
          switch' = [f \in FootSwitches |-> ButtonAge(switch[f], dt)]
    /\ sent' = << >>
    /\ last' = [dev |-> "clock", branch |-> "none", value |-> 0]
    /\ UNCHANGED <<pressed, momentary, mode_change, is_on, pedal, last_value, lastMsg,
                   running>>

\* -------------------------------------------------------- specifications
\* all device tasks of main(), interleaved at their sleep points
Next ==
    \/ \E f \in FootSwitches : FootSwitchPoll(f) /\ UNCHANGED hist
    \/ ModeChangeSwitchPoll /\ UNCHANGED hist
    \/ ExpressionPedalPoll /\ UNCHANGED hist
    \/ Advance /\ UNCHANGED hist

Spec == Init /\ [][Next]_vars

\* ---------------------------------------------------------------- history
\* What the history records (it never influences the program state):
\*   flip            the level the flip switch of the ModeChangeSwitch rests at
\*                   (TRUE = open, pulled up); a sample that differs is a glitch
\*   low_seen        the flip switch has rested at, or been sampled, low
\*   select_edge[f]  a mode_change_poll of f has seen a pressed or released edge
\*                   since the mode_change flag of f was last switched on
\*   select_shown[f] the latest poll of f was a mode_change_poll that read a
\*                   non-zero short_count, and the flag has stayed on since
\*   emit_mode[f]    the poll ("toggle" / "momentary") that sent lastMsg[f]
\*   owed[f]         momentary_poll sent 127 for a press whose release no poll
\*                   of f has seen yet
HistFootSwitch(f) ==
    LET br == last'.branch
        b  == switch'[f]
    IN hist' = [hist EXCEPT
          !.select_edge[f]  = (br = "mode_change") /\ (@ \/ b.changed),
          !.select_shown[f] = (br = "mode_change") /\ ShortCount(b) > 0,
          !.emit_mode[f]    = IF sent' # << >> THEN br ELSE @,
          !.owed[f]         = IF ButtonReleased(b) THEN FALSE
                              ELSE IF br = "momentary" /\ ButtonPressed(b) THEN TRUE
                              ELSE @ ]

\* the levels read by the iteration: the comparison reads ~is_on when it takes
\* the branch, the assignment reads is_on'
HistModeChangeSwitch ==
    LET lowRead == ~is_on' \/ (last'.branch = "flipped" /\ is_on) IN
    hist' = [hist EXCEPT
          !.low_seen     = @ \/ lowRead,
          !.select_edge  = [f \in FootSwitches |->
                               IF mode_change'[f] # mode_change[f] THEN FALSE ELSE @[f]],
          !.select_shown = [f \in FootSwitches |->
                               IF mode_change'[f] # mode_change[f] THEN FALSE ELSE @[f]] ]

\* the player moves the flip switch of the ModeChangeSwitch to its other position
MoveFlipSwitch ==
    /\ hist' = [hist EXCEPT !.flip = ~@, !.low_seen = @ \/ hist.flip]
    /\ sent' = << >>
    /\ last' = [dev |-> "player", branch |-> "flip", value |-> 0]
    /\ UNCHANGED <<switch, pressed, momentary, mode_change, is_on, pedal, last_value,
                   lastMsg, running>>

\* the foot switch tasks and the ModeChangeSwitch task of a configuration
\* without expression pedals, with the history recorded
SwitchInit == InitWith(PedalConfigs) /\ \E flip \in BOOLEAN : hist = HistInit(flip)

HistNext ==
    \/ \E f \in FootSwitches : FootSwitchPoll(f) /\ HistFootSwitch(f)
    \/ ModeChangeSwitchPoll /\ HistModeChangeSwitch
    \/ Advance /\ UNCHANGED hist
    \/ MoveFlipSwitch

HistSpec == SwitchInit /\ [][HistNext]_vars

\* the event loop of asyncio.gather runs every task that is ready again and
\* again: each monitor loop is scheduled fairly
Tasks == FootSwitches \cup {ModeSwitchDev, PedalDev}

\* the scheduling specification: the same tasks, the pedal resting at mid
\* travel and the clock moving in long steps only
RestingPedalPoll == PedalPoll({33000})

LongAdvance ==
    /\ Advance
    /\ switch' = [f \in FootSwitches |-> ButtonAge(switch[f], 300)]

FairNext ==
    \/ \E f \in FootSwitches : FootSwitchPoll(f) /\ UNCHANGED hist
    \/ ModeChangeSwitchPoll /\ UNCHANGED hist
    \/ RestingPedalPoll /\ UNCHANGED hist
    \/ LongAdvance /\ UNCHANGED hist

Fairness ==
    /\ \A f \in FootSwitches : WF_vars(FootSwitchPoll(f) /\ UNCHANGED hist)
    /\ WF_vars(ModeChangeSwitchPoll /\ UNCHANGED hist)
    /\ WF_vars(RestingPedalPoll /\ UNCHANGED hist)

FairSpec == Init /\ [][FairNext]_vars /\ Fairness

\* the expression pedal task alone, over a wide set of configurations and samples
WidePedalPoll == PedalPoll(WideRawSamples)

PedalInit == InitWith(WidePedalConfigs) /\ hist = HistInit(TRUE)

PedalNext == WidePedalPoll /\ UNCHANGED hist

PedalSpec == PedalInit /\ [][PedalNext]_vars

TypeOK ==
    /\ pressed \in [FootSwitches -> BOOLEAN]
    /\ momentary \in [FootSwitches -> BOOLEAN]
    /\ mode_change \in [FootSwitches -> BOOLEAN]
    /\ is_on \in BOOLEAN
    /\ last_value \in 0..127

\* ------------------------------------------------------------ properties
\* foot switch f ran the latest loop iteration (evaluated on the new state)
Polled(f) == last.dev = f

\* C1: a poll of a foot switch in toggle mode with mode_change off flips
\* self.pressed and sends exactly one message {cc, 127 if now pressed else 0} when
\* the Button reports a pressed edge, and sends nothing and keeps self.pressed
\* on a released edge or no edge.
C1_TogglePoll ==
    [][\A f \in FootSwitches :
          (Polled(f)' /\ ~mode_change[f] /\ ~momentary[f]) =>
             IF ButtonPressed(switch'[f])
             THEN /\ pressed'[f] = ~pressed[f]
                  /\ sent' = << ControlChange(SwitchCc(f),
                                   IF pressed'[f] THEN 127 ELSE 0) >>
             ELSE /\ sent' = << >>
                  /\ pressed'[f] = pressed[f]]_vars

\* C1 witness: the second press of a toggle switch has just sent {81, 0}
C1_Witness ==
    /\ last.dev = "sw1" /\ last.branch = "toggle"
    /\ ButtonPressed(switch["sw1"])
    /\ sent = << ControlChange(81, 0) >>
    /\ ~pressed["sw1"]

\* C2: a poll of a foot switch in momentary mode with mode_change off sends
\* exactly {cc,127} on a pressed edge, exactly {cc,0} on a released edge, nothing
\* without an edge, and never changes self.pressed.
C2_MomentaryPoll ==
    [][\A f \in FootSwitches :
          (Polled(f)' /\ ~mode_change[f] /\ momentary[f]) =>
             /\ pressed'[f] = pressed[f]
             /\ ButtonPressed(switch'[f]) => sent' = << ControlChange(SwitchCc(f), 127) >>
             /\ ButtonReleased(switch'[f]) => sent' = << ControlChange(SwitchCc(f), 0) >>
             /\ (~ButtonPressed(switch'[f]) /\ ~ButtonReleased(switch'[f])) => sent' = << >>]_vars

\* C2 witness: a momentary switch has just sent {81, 0} for a released edge
C2_Witness ==
    /\ last.dev = "sw1" /\ last.branch = "momentary"
    /\ ButtonReleased(switch["sw1"])
    /\ sent = << ControlChange(81, 0) >>

\* C3: a poll of a foot switch whose mode_change flag is on keeps the mode when
\* short_count is 0, selects toggle when it is 1 and momentary when it is 2 or
\* more; it sends no message and keeps self.pressed whatever edge it sees.
C3_ModeSelectPoll ==
    [][\A f \in FootSwitches :
          (Polled(f)' /\ mode_change[f]) =>
             /\ ShortCount(switch'[f]) = 0 => momentary'[f] = momentary[f]
             /\ ShortCount(switch'[f]) = 1 => momentary'[f] = FALSE
             /\ ShortCount(switch'[f]) >= 2 => momentary'[f] = TRUE
             /\ sent' = << >>
             /\ lastMsg' = lastMsg
             /\ pressed'[f] = pressed[f]]_vars

\* C3 witness: a mode-select poll has just resolved a double tap
C3_Witness ==
    /\ last.dev = "sw1" /\ last.branch = "mode_change"
    /\ ShortCount(switch["sw1"]) >= 2
    /\ momentary["sw1"]

\* C4: FootSwitch.momentary changes only in a poll of that foot switch that
\* runs while its mode_change flag is on (never in a toggle, momentary,
\* ModeChangeSwitch or ExpressionPedal poll).
C4_ModeChangesOnlyInModeSelect ==
    [][\A f \in FootSwitches :
          momentary'[f] # momentary[f] =>
             /\ Polled(f)'
             /\ last'.branch = "mode_change"
             /\ mode_change[f]]_vars

\* C4 witness: a switch latched on in toggle mode has been switched to momentary
C4_Witness ==
    /\ last.dev = "sw1" /\ last.branch = "mode_change"
    /\ ShortCount(switch["sw1"]) >= 1
    /\ pressed["sw1"] /\ momentary["sw1"]

C6_ExtremesAlwaysReported ==
    (last.dev = PedalDev /\ last.value \in {0, 127}) =>
        lastMsg[PedalDev].value = last.value

\* C7: last_value changes only in a pedal poll that sends, where it becomes the
\* value sent; a poll that sends nothing keeps it; once the pedal has sent a
\* message, last_value equals the value of its latest message.
C7_LastValueIsLastSent ==
    [][/\ last_value' # last_value => (last'.dev = PedalDev /\ sent' # << >>)
       /\ (last'.dev = PedalDev /\ sent' # << >>) =>
             (Len(sent') = 1 /\ last_value' = sent'[1].value)
       /\ (last'.dev = PedalDev /\ sent' = << >>) => last_value' = last_value
       /\ lastMsg'[PedalDev] # NoMsg => last_value' = lastMsg'[PedalDev].value]_vars

\* C7 witness: a quiet poll sampled a value other than the one last sent
C7_Witness ==
    /\ last.dev = PedalDev /\ last.branch = "quiet"
    /\ lastMsg[PedalDev] # NoMsg
    /\ last.value # last_value
    /\ last_value = lastMsg[PedalDev].value

\* C8: between loop iterations every foot switch's mode_change flag equals the
\* ModeChangeSwitch's is_on, and only a ModeChangeSwitch iteration writes the flag.
C8_FlagsMirrorIsOn ==
    /\ \A f \in FootSwitches : mode_change[f] = is_on
    /\ [][/\ \A f \in FootSwitches : mode_change'[f] = is_on'
          /\ mode_change' # mode_change => last'.dev = ModeSwitchDev]_vars

\* C8 witness: the ModeChangeSwitch has just flipped on and every flag is set
C8_Witness ==
    /\ last.dev = ModeSwitchDev /\ last.branch = "flipped"
    /\ is_on
    /\ \A f \in FootSwitches : mode_change[f]

\* C9: a ModeChangeSwitch iteration sends nothing and changes no foot switch's
\* mode or pressed state; a foot switch iteration runs mode_change_poll exactly
\* when is_on is true at that moment, and toggle_poll / momentary_poll otherwise.
C9_BroadcastTakesEffectAtNextPoll ==
    [][/\ last'.dev = ModeSwitchDev =>
             /\ sent' = << >>
             /\ lastMsg' = lastMsg
             /\ momentary' = momentary
             /\ pressed' = pressed
       /\ \A f \in FootSwitches :
             Polled(f)' => (last'.branch = "mode_change" <=> is_on)]_vars

\* C9 witness: with is_on set, a poll that saw a pressed edge ran mode_change_poll
C9_Witness ==
    /\ is_on
    /\ last.dev = "sw1" /\ last.branch = "mode_change"
    /\ ButtonPressed(switch["sw1"])
    /\ sent = << >>

\* C10: every message a foot switch or the pedal passes to midi_out.send has a
\* value in 0..127.
C10_ValuesInMidiRange ==
    /\ \A i \in 1..Len(sent) : sent[i].value \in 0..127
    /\ \A d \in Devices : lastMsg[d] # NoMsg => lastMsg[d].value \in 0..127

\* C10 witness: a sample above pot_max was sent as 127
C10_Witness ==
    /\ last.dev = PedalDev /\ last.branch = "send"
    /\ sent = << ControlChange(pedal.cc_parameter, 127) >>
    /\ lastMsg["sw1"] # NoMsg

\* C11: while a foot switch is held (debounced level low before and after the
\* poll) and its mode_change flag is off, a toggle or momentary poll sends
\* nothing and keeps self.pressed: no repeated emission between the poll that
\* reports the press edge and the poll that reports the release edge.
C11_NoRepeatWhileHeld ==
    [][\A f \in FootSwitches :
          (/\ Polled(f)'
           /\ ~mode_change[f]
           /\ ~switch[f].value
           /\ ~switch'[f].value) =>
             /\ sent' = << >>
             /\ lastMsg' = lastMsg
             /\ pressed'[f] = pressed[f]]_vars

\* C11 witness: a toggle switch held for 300 ms or more after its press sent
\* 127 has just been polled again and has sent nothing
C11_Witness ==
    /\ last.dev = "sw1" /\ last.branch = "toggle"
    /\ ~switch["sw1"].value /\ ~switch["sw1"].changed
    /\ switch["sw1"].change_age >= 300
    /\ lastMsg["sw1"] = ControlChange(81, 127)
    /\ pressed["sw1"]
    /\ sent = << >>

\* C12: every monitor loop yields on every path of its body (no task ever holds
\* the event loop between two loop iterations), so under fair scheduling every
\* foot switch, the ModeChangeSwitch and the pedal are polled again and again.
C12_EveryTaskPolledForever ==
    /\ [](running = "none")
    /\ \A d \in Tasks : []<>(last.dev = d)

\* C12 witness: a foot switch has run the mode_change_poll / continue path and
\* the event loop is free again
C12_Witness ==
    /\ last.dev = "sw1" /\ last.branch = "mode_change"
    /\ mode_change["sw1"]
    /\ running = "none"

\* C13: mode-select is inert unless enabled: the mode of a foot switch changes
\* only when a tap was performed while its mode_change flag was on, i.e. only
\* after a mode_change_poll has seen an edge of the switch since the flag was
\* switched on; a tap completed before that never changes the mode.
C13_OnlySelectTapsCount ==
    [][\A f \in FootSwitches :
          momentary'[f] # momentary[f] => hist.select_edge[f]]_vars

\* C14: the ModeChangeSwitch follows only the debounced level of its pin: is_on
\* and the mode_change flags change only to the level the flip switch rests
\* at; a glitch (a sample that differs from the resting level) read by one
\* iteration changes neither.
C14_GlitchIgnored ==
    [][(is_on' # is_on \/ mode_change' # mode_change) =>
          (is_on' = hist.flip /\ mode_change' = Broadcast(hist.flip))]_vars

\* C15: every poll of a foot switch, on whichever branch, calls update() exactly
\* once: the Button after the poll is one update() of the Button before it, the
\* poll reports a pressed edge exactly when the debounced level went from high
\* to low in that poll and a released edge exactly when it went from low to
\* high, and the level changes in no other step; so each press and each
\* release is reported by exactly one poll.
C15_OneUpdatePerPoll ==
    [][\A f \in FootSwitches :
          /\ switch'[f].value # switch[f].value => Polled(f)'
          /\ Polled(f)' =>
                /\ \E cur \in BOOLEAN : switch'[f] = ButtonUpdate(switch[f], cur)
                /\ ButtonPressed(switch'[f]) <=> (switch[f].value /\ ~switch'[f].value)
                /\ ButtonReleased(switch'[f]) <=> (~switch[f].value /\ switch'[f].value)]_vars

\* C15 witness: the release of a press was reported by a mode_change_poll
C15_Witness ==
    /\ last.dev = "sw1" /\ last.branch = "mode_change"
    /\ ButtonReleased(switch["sw1"])
    /\ switch["sw1"].short_counter = 1

\* C16: a tap sequence is consumed by one mode-select resolution: when a
\* mode_change_poll has read a non-zero short_count and the flag stays on, the
\* next poll of that foot switch reads short_count 0 (so it assigns no mode).
C16_CountReadOnce ==
    [][\A f \in FootSwitches :
          (Polled(f)' /\ mode_change[f] /\ hist.select_shown[f]) =>
             ShortCount(switch'[f]) = 0]_vars

\* C17 (as claimed): when momentary_poll has sent 127 for a press, the poll
\* that sees the release of that press sends {cc, 0}, also when the mode_change
\* flag was switched on while the switch was held.
C17_ReleaseAlwaysSendsZero ==
    [][\A f \in FootSwitches :
          (Polled(f)' /\ hist.owed[f] /\ ButtonReleased(switch'[f])) =>
             sent' = << ControlChange(SwitchCc(f), 0) >>]_vars

\* C17 (amended): when momentary_poll has sent 127 for a press, the poll that
\* sees the release of that press sends {cc, 0} if it runs momentary_poll (flag
\* off, mode still momentary); otherwise (the flag was switched on while the
\* switch was held, or the mode was changed meanwhile) it sends nothing and the
\* latest message of the foot switch stays {cc, 127}.
C17_ReleaseSendsZeroOnlyInMomentaryPoll ==
    [][\A f \in FootSwitches :
          (Polled(f)' /\ hist.owed[f] /\ ButtonReleased(switch'[f])) =>
             IF ~mode_change[f] /\ momentary[f]
             THEN sent' = << ControlChange(SwitchCc(f), 0) >>
             ELSE /\ sent' = << >>
                  /\ lastMsg'[f] = ControlChange(SwitchCc(f), 127)]_vars

\* C17 witness: the release of a press that sent 127 in momentary mode was seen
\* by a mode_change_poll, and 127 is still the latest message
C17_Witness ==
    /\ last.dev = "sw1" /\ last.branch = "mode_change"
    /\ ButtonReleased(switch["sw1"])
    /\ hist.emit_mode["sw1"] = "momentary"
    /\ lastMsg["sw1"] = ControlChange(81, 127)
    /\ ~hist.owed["sw1"]

\* C18 (as claimed): once a foot switch has sent a message, self.pressed is
\* true exactly when the value of its latest message is 127, and every message
\* sent by toggle_poll differs in value from the foot switch's previous message.
C18_PressedMirrorsLastMessage ==
    [][\A f \in FootSwitches :
          /\ lastMsg'[f] # NoMsg => (pressed'[f] <=> lastMsg'[f].value = 127)
          /\ (Polled(f)' /\ last'.branch = "toggle" /\ sent' # << >>
                /\ lastMsg[f] # NoMsg) =>
                sent'[1].value # lastMsg[f].value]_vars

\* C18 (amended): while the latest message of a foot switch is one sent by
\* toggle_poll, self.pressed is true exactly when its value is 127, and a
\* message sent by toggle_poll differs in value from the previous message if
\* that one was sent by toggle_poll too.  (momentary_poll sends 127 and 0
\* without writing self.pressed.)
C18_PressedMirrorsLastToggleMessage ==
    [][\A f \in FootSwitches :
          /\ hist'.emit_mode[f] = "toggle" =>
                (pressed'[f] <=> lastMsg'[f].value = 127)
          /\ (Polled(f)' /\ last'.branch = "toggle" /\ sent' # << >>
                /\ hist.emit_mode[f] = "toggle") =>
                sent'[1].value # lastMsg[f].value]_vars

\* C18 witness: toggle_poll has just sent {81, 0} after a toggle message 127
C18_Witness ==
    /\ last.dev = "sw1" /\ last.branch = "toggle"
    /\ hist.emit_mode["sw1"] = "toggle"
    /\ sent = << ControlChange(81, 0) >>
    /\ lastMsg["sw1"] = ControlChange(81, 0)
    /\ ~pressed["sw1"]
    /\ is_on = FALSE

C20_OffWhileSwitchOpen ==
    [][/\ is_on' # is_on =>
             (last'.dev = ModeSwitchDev /\ last'.branch = "flipped")
       /\ ~hist'.low_seen => \A f \in FootSwitches : ~mode_change'[f]]_vars
====
